---------------------------- MODULE Spec2Model ----------------------------
(***************************************************************************)
(* Model of the MSP430x5xx USB device controller driver                    *)
(* (src/portable/ti/msp430x5xx/dcd_msp430x5xx.c).                          *)
(*                                                                         *)
(* Registers that are bit fields are modelled as the set of the bits that  *)
(* are set; the two endpoint-0 byte-count registers and the transfer       *)
(* lengths are integers with the width the C types give them.              *)
(***************************************************************************)
EXTENDS Integers, Sequences, FiniteSets, TLC

(***************************************************************************)
(* Bounds of the model.                                                    *)
(***************************************************************************)
\* Largest transfer length handed to dcd_edpt_xfer in XferSpec.
MaxLen == 20
\* Number of records of endpoints 1..7 in use at a time in EpSpec.
MaxUsed == 1
\* Number of packet sizes the observer log `packets` keeps per transfer.
MaxPackets == 4
\* Number of distinct application buffers.
MaxBuf == 1
\* Number of distinct SETUP packet contents the host sends.
MaxSetup == 1
\* Largest device address handed to dcd_set_address in AddrSpec.
MaxAddr == 127

(***************************************************************************)
(* Program constants.                                                      *)
(***************************************************************************)
\* xfer_status[8][2]
NumEndpoints == 8
TUSB_DIR_OUT == 0
TUSB_DIR_IN == 1
\* max_size of endpoint 0, set by bus_reset
EP0_MAX_SIZE == 8
\* NAK bit of USBIEPCNT_0 / USBOEPCNT_0
NAK == 128
\* widths of uint16_t and uint8_t
U16 == 65536
U8 == 256
\* USBVECINT values, in the hardware's priority order (smallest first)
USBVECINT_NONE == 0
USBVECINT_PWR_VBUSOn == 10
USBVECINT_INPUT_ENDPOINT0 == 18
USBVECINT_OUTPUT_ENDPOINT0 == 20
USBVECINT_RSTR == 22
USBVECINT_SETUP_PACKET_RECEIVED == 32

Dirs == {TUSB_DIR_OUT, TUSB_DIR_IN}
EpNums == 0 .. (NumEndpoints - 1)
NULL == 0
Buffers == 1 .. MaxBuf
SetupVals == 1 .. MaxSetup

\* The interrupt-enable and interrupt-flag bits of USBPWRCTL.
PwrIE == {"VUOVLIE", "VBONIE", "VBOFFIE"}
PwrIFG == {"VUOVLIFG", "VBONIFG", "VBOFFIFG"}

VARIABLES
  \* hardware registers
  USBKEYPID, USBCNF, USBCTL, USBFUNADR,
  USBOEPIE, USBIEPIE, USBIE, USBPWRCTL,
  USBOEPIFG, USBIEPIFG, USBIFG,
  USBOEPCNF_0, USBIEPCNF_0, USBOEPCNT_0, USBIEPCNT_0,
  USBIEP0BUF, USBSUBLK,
  GIE,
  \* driver state
  usbiepie_mirror, usboepie_mirror, usbie_mirror, usbpwrctl_mirror, in_isr,
  _setup_packet, xfer_status,
  \* control state of the processor
  pc, halted,
  \* observers
  isr_events, packets, xfer_done, in_owner, int_log, ret

hw_ie == <<USBOEPIE, USBIEPIE, USBIE, USBPWRCTL>>
hw_ifg == <<USBOEPIFG, USBIEPIFG, USBIFG>>
hw_cfg == <<USBKEYPID, USBCNF, USBCTL, USBFUNADR, USBOEPCNF_0, USBIEPCNF_0>>
hw_ep0 == <<USBOEPCNT_0, USBIEPCNT_0, USBIEP0BUF, USBSUBLK>>
mirrors == <<usbiepie_mirror, usboepie_mirror, usbie_mirror, usbpwrctl_mirror>>
observers == <<isr_events, packets, xfer_done, in_owner, int_log, ret>>
vars == <<hw_ie, hw_ifg, hw_cfg, hw_ep0, GIE, mirrors, in_isr, _setup_packet,
          xfer_status, pc, halted, observers>>


(***************************************************************************)
(* Helpers for registers.                                                  *)
(***************************************************************************)
\* x &= ~NAK on an 8-bit count register
ClearNAK(x) == IF x >= NAK THEN x - NAK ELSE x
\* x |= NAK on an 8-bit count register
SetNAK(x) == IF x >= NAK THEN x ELSE x + NAK
HasNAK(x) == x >= NAK
\* the four tracked interrupt-enable values held by the hardware
TrackedIE == [oep |-> USBOEPIE, iep |-> USBIEPIE, ie |-> USBIE,
              pwr |-> USBPWRCTL \cap PwrIE]
\* the four mirrors
Mirrors == [oep |-> usboepie_mirror, iep |-> usbiepie_mirror,
            ie |-> usbie_mirror, pwr |-> usbpwrctl_mirror]
NoIE == [oep |-> {}, iep |-> {}, ie |-> {}, pwr |-> {}]

\* tu_edpt_addr, tu_edpt_number, tu_edpt_dir: endpoint address encoding
tu_edpt_addr(num, dir) == num + (IF dir = TUSB_DIR_IN THEN 128 ELSE 0)
tu_edpt_number(addr) == addr % 16
tu_edpt_dir(addr) == IF addr >= 128 THEN TUSB_DIR_IN ELSE TUSB_DIR_OUT

\* one transfer control record as the C runtime zero-initialises it
ZeroXfer == [buffer |-> NULL, total_len |-> 0, queued_len |-> 0,
             max_size |-> 0, short_packet |-> FALSE, zlp_sent |-> FALSE]

\* the dedicated endpoint-0 IN packet buffer holds, per byte, the address
\* <<buffer, offset>> of the byte last copied into it (<<NULL, 0>> at reset)
ZeroBuf == [i \in 0 .. (EP0_MAX_SIZE - 1) |-> <<NULL, 0>>]

(***************************************************************************)
(* The interrupt logic of the USB module.                                  *)
(***************************************************************************)
\* the vectors whose flag is set and whose enable is set
PendingVectors ==
  {v \in {USBVECINT_PWR_VBUSOn, USBVECINT_INPUT_ENDPOINT0,
          USBVECINT_OUTPUT_ENDPOINT0, USBVECINT_RSTR,
          USBVECINT_SETUP_PACKET_RECEIVED} :
     \/ v = USBVECINT_PWR_VBUSOn /\ {"VBONIE", "VBONIFG"} \subseteq USBPWRCTL
     \/ v = USBVECINT_INPUT_ENDPOINT0 /\ 0 \in USBIEPIFG \cap USBIEPIE
     \/ v = USBVECINT_OUTPUT_ENDPOINT0 /\ 0 \in USBOEPIFG \cap USBOEPIE
     \/ v = USBVECINT_RSTR /\ "RSTRIFG" \in USBIFG /\ "RSTRIE" \in USBIE
     \/ v = USBVECINT_SETUP_PACKET_RECEIVED
          /\ "SETUPIFG" \in USBIFG /\ "SETUPIE" \in USBIE}

\* the value a read of USBVECINT returns: the pending vector of highest
\* priority (smallest value), or none
USBVECINT ==
  IF PendingVectors = {} THEN USBVECINT_NONE
  ELSE CHOOSE v \in PendingVectors : \A w \in PendingVectors : v <= w

\* the CPU takes the USB interrupt before its next instruction
IntRequest == GIE /\ PendingVectors # {}

\* a port call starts, or continues, only while the CPU runs the main thread
MainRuns == ~halted /\ ~IntRequest

(***************************************************************************)
(* Initial state: registers and statics after power-on.                    *)
(***************************************************************************)
\* everything but the four interrupt-enable registers and GIE
PowerOnRest ==
  /\ USBKEYPID = 0
  /\ USBCNF = {}
  /\ USBCTL = {}
  /\ USBFUNADR = 0
  /\ USBOEPIFG = {}
  /\ USBIEPIFG = {}
  /\ USBIFG = {}
  /\ USBOEPCNF_0 = {}
  /\ USBIEPCNF_0 = {}
  /\ USBOEPCNT_0 = 0
  /\ USBIEPCNT_0 = 0
  /\ USBIEP0BUF = ZeroBuf
  /\ USBSUBLK = 0
  /\ usbiepie_mirror = {}
  /\ usboepie_mirror = {}
  /\ usbie_mirror = {}
  /\ usbpwrctl_mirror = {}
  /\ in_isr = FALSE
  /\ _setup_packet = 0
  /\ xfer_status = [e \in EpNums |-> [d \in Dirs |-> ZeroXfer]]
  /\ pc = "main"
  /\ halted = FALSE
  /\ isr_events = <<>>
  /\ packets = <<>>
  /\ xfer_done = <<>>
  /\ in_owner = "none"
  /\ int_log = <<>>
  /\ ret = "none"

Init ==
  /\ PowerOnRest
  /\ USBOEPIE = {}
  /\ USBIEPIE = {}
  /\ USBIE = {}
  /\ USBPWRCTL = {"VUSBEN", "SLDOEN"}
  /\ GIE = FALSE

(***************************************************************************)
(* dcd_init                                                                *)
(***************************************************************************)
\* a dcd_init that leaves the mirrors as they are
dcd_init_keepmirrors ==
  /\ MainRuns /\ pc = "main"
  /\ USBKEYPID' = 0
  /\ USBCNF' = USBCNF \cup {"USB_EN", "PUR_EN"}
  /\ USBOEPIE' = {}
  /\ USBIEPIE' = {}
  /\ USBIE' = {"RSTRIE"}
  /\ USBOEPIFG' = {}
  /\ USBIEPIFG' = {}
  /\ USBIFG' = {}
  /\ USBPWRCTL' = USBPWRCTL \ (PwrIE \cup PwrIFG)
  /\ int_log' = <<>>
  /\ UNCHANGED <<USBCTL, USBFUNADR, USBOEPCNF_0, USBIEPCNF_0, hw_ep0, GIE,
                 mirrors, in_isr, _setup_packet, xfer_status, pc, halted,
                 isr_events, packets, xfer_done, in_owner, ret>>

dcd_init ==
  /\ MainRuns /\ pc = "main"
  /\ USBKEYPID' = 0
  /\ USBCNF' = USBCNF \cup {"USB_EN", "PUR_EN"}
  /\ USBOEPIE' = {}
  /\ USBIEPIE' = {}
  /\ USBIE' = {"RSTRIE"}
  /\ USBOEPIFG' = {}
  /\ USBIEPIFG' = {}
  /\ USBIFG' = {}
  /\ USBPWRCTL' = USBPWRCTL \ (PwrIE \cup PwrIFG)
  /\ usboepie_mirror' = {}
  /\ usbiepie_mirror' = {}
  /\ usbie_mirror' = {}
  /\ usbpwrctl_mirror' = {}
  /\ int_log' = <<>>
  /\ UNCHANGED <<USBCTL, USBFUNADR, USBOEPCNF_0, USBIEPCNF_0, hw_ep0, GIE,
                 in_isr, _setup_packet, xfer_status, pc, halted,
                 isr_events, packets, xfer_done, in_owner, ret>>

(***************************************************************************)
(* dcd_int_disable and dcd_int_enable, one action per stretch of code      *)
(* between two points where the global interrupt enable changes or where   *)
(* the snapshot is half done.                                              *)
(***************************************************************************)
\* the observer's entry for a call of dcd_int_disable or dcd_int_enable:
\* the tracked enables, the mirrors and the flag as the call found them
LogEntry(op) == [op |-> op, ie |-> TrackedIE, pwrctl |-> USBPWRCTL,
                 mir |-> Mirrors, flag |-> in_isr, gie |-> GIE]
LogCall(op) ==
  IF Len(int_log) < 3 THEN Append(int_log, LogEntry(op))
  ELSE Append(Tail(int_log), LogEntry(op))

\* a dcd_int_disable that does not clear GIE first
dcd_int_disable_bic_nogie ==
  /\ MainRuns /\ pc = "main"
  /\ pc' = "dis_save"
  /\ UNCHANGED <<hw_ie, hw_ifg, hw_cfg, hw_ep0, GIE, mirrors, in_isr,
                 _setup_packet, xfer_status, halted, isr_events, packets,
                 xfer_done, in_owner, ret>>

\* line 159: __bic_SR_register(GIE)
dcd_int_disable_bic ==
  /\ MainRuns /\ pc = "main"
  /\ GIE' = FALSE
  /\ pc' = "dis_save"
  /\ UNCHANGED <<hw_ie, hw_ifg, hw_cfg, hw_ep0, mirrors, in_isr, _setup_packet,
                 xfer_status, halted, isr_events, packets, xfer_done, in_owner, ret>>

\* a snapshot that misses USBIE
dcd_int_disable_save_noie ==
  /\ MainRuns /\ pc = "dis_save"
  /\ usboepie_mirror' = USBOEPIE
  /\ usbiepie_mirror' = USBIEPIE
  /\ usbie_mirror' = usbie_mirror
  /\ usbpwrctl_mirror' = USBPWRCTL \cap PwrIE
  /\ pc' = "dis_clear"
  /\ UNCHANGED <<hw_ie, hw_ifg, hw_cfg, hw_ep0, GIE, in_isr, _setup_packet,
                 xfer_status, halted, isr_events, packets, xfer_done, in_owner, ret>>

\* a snapshot that is taken only when interrupts are not already disabled
dcd_int_disable_save_nested ==
  /\ MainRuns /\ pc = "dis_save"
  /\ usboepie_mirror' = IF in_isr THEN usboepie_mirror ELSE USBOEPIE
  /\ usbiepie_mirror' = IF in_isr THEN usbiepie_mirror ELSE USBIEPIE
  /\ usbie_mirror' = IF in_isr THEN usbie_mirror ELSE USBIE
  /\ usbpwrctl_mirror' = IF in_isr THEN usbpwrctl_mirror
                         ELSE USBPWRCTL \cap PwrIE
  /\ pc' = "dis_clear"
  /\ UNCHANGED <<hw_ie, hw_ifg, hw_cfg, hw_ep0, GIE, in_isr, _setup_packet,
                 xfer_status, halted, isr_events, packets, xfer_done, in_owner, ret>>

\* lines 160-163: the four mirrors take the hardware values
dcd_int_disable_save ==
  /\ MainRuns /\ pc = "dis_save"
  /\ usboepie_mirror' = USBOEPIE
  /\ usbiepie_mirror' = USBIEPIE
  /\ usbie_mirror' = USBIE
  /\ usbpwrctl_mirror' = USBPWRCTL \cap PwrIE
  /\ pc' = "dis_clear"
  /\ UNCHANGED <<hw_ie, hw_ifg, hw_cfg, hw_ep0, GIE, in_isr, _setup_packet,
                 xfer_status, halted, isr_events, packets, xfer_done, in_owner, ret>>

\* lines 164-168: the hardware enables are zeroed and the flag is set
dcd_int_disable_clear ==
  /\ MainRuns /\ pc = "dis_clear"
  /\ USBOEPIE' = {}
  /\ USBIEPIE' = {}
  /\ USBIE' = {}
  /\ USBPWRCTL' = USBPWRCTL \ PwrIE
  /\ in_isr' = TRUE
  /\ pc' = "dis_bis"
  /\ UNCHANGED <<hw_ifg, hw_cfg, hw_ep0, GIE, mirrors, _setup_packet,
                 xfer_status, halted, isr_events, packets, xfer_done, in_owner, ret>>

\* line 169: __bis_SR_register(GIE)
dcd_int_disable_bis ==
  /\ MainRuns /\ pc = "dis_bis"
  /\ GIE' = TRUE
  /\ pc' = "main"
  /\ UNCHANGED <<hw_ie, hw_ifg, hw_cfg, hw_ep0, mirrors, in_isr, _setup_packet,
                 xfer_status, halted, isr_events, packets, xfer_done, in_owner, ret>>

\* line 137: __bic_SR_register(GIE)
dcd_int_enable_bic ==
  /\ MainRuns /\ pc = "main"
  /\ GIE' = FALSE
  /\ pc' = "en_restore"
  /\ UNCHANGED <<hw_ie, hw_ifg, hw_cfg, hw_ep0, mirrors, in_isr, _setup_packet,
                 xfer_status, halted, isr_events, packets, xfer_done, in_owner, ret>>

\* a restore that does not test the flag
dcd_int_enable_restore_unguarded ==
  /\ MainRuns /\ pc = "en_restore"
  /\ USBOEPIE' = usboepie_mirror
  /\ USBIEPIE' = usbiepie_mirror
  /\ USBIE' = usbie_mirror
  /\ USBPWRCTL' = USBPWRCTL \cup usbpwrctl_mirror
  /\ in_isr' = FALSE
  /\ pc' = "en_bis"
  /\ UNCHANGED <<hw_ifg, hw_cfg, hw_ep0, GIE, mirrors, _setup_packet,
                 xfer_status, halted, isr_events, packets, xfer_done, in_owner, ret>>

\* lines 143-151: restore from the mirrors if the flag is set; clear the flag
dcd_int_enable_restore ==
  /\ MainRuns /\ pc = "en_restore"
  /\ IF in_isr
       THEN /\ USBOEPIE' = usboepie_mirror
            /\ USBIEPIE' = usbiepie_mirror
            /\ USBIE' = usbie_mirror
            /\ USBPWRCTL' = USBPWRCTL \cup usbpwrctl_mirror
       ELSE UNCHANGED hw_ie
  /\ in_isr' = FALSE
  /\ pc' = "en_bis"
  /\ UNCHANGED <<hw_ifg, hw_cfg, hw_ep0, GIE, mirrors, _setup_packet,
                 xfer_status, halted, isr_events, packets, xfer_done, in_owner, ret>>

\* a return that puts the global enable back as the call found it
dcd_int_enable_bis_restore ==
  /\ MainRuns /\ pc = "en_bis"
  /\ GIE' = IF int_log = <<>> THEN TRUE ELSE int_log[Len(int_log)].gie
  /\ pc' = "main"
  /\ UNCHANGED <<hw_ie, hw_ifg, hw_cfg, hw_ep0, mirrors, in_isr, _setup_packet,
                 xfer_status, halted, isr_events, packets, xfer_done, in_owner, ret>>

\* line 152: __bis_SR_register(GIE)
dcd_int_enable_bis ==
  /\ MainRuns /\ pc = "en_bis"
  /\ GIE' = TRUE
  /\ pc' = "main"
  /\ UNCHANGED <<hw_ie, hw_ifg, hw_cfg, hw_ep0, mirrors, in_isr, _setup_packet,
                 xfer_status, halted, isr_events, packets, xfer_done, in_owner, ret>>


(***************************************************************************)
(* dcd_edpt_xfer, dcd_set_address, dcd_edpt_open                           *)
(***************************************************************************)
\* a reset that leaves queued_len as it was
xfer_reset_keepqueued(xfer, buffer, total_bytes) ==
  [xfer EXCEPT !.buffer = buffer, !.total_len = total_bytes,
               !.short_packet = FALSE, !.zlp_sent = FALSE]

\* a reset that leaves zlp_sent as it was
xfer_reset_keepzlp(xfer, buffer, total_bytes) ==
  [xfer EXCEPT !.buffer = buffer, !.total_len = total_bytes,
               !.queued_len = 0, !.short_packet = FALSE]

\* lines 215-220: the record of the endpoint and direction is reset
xfer_reset(xfer, buffer, total_bytes) ==
  [xfer EXCEPT !.buffer = buffer, !.total_len = total_bytes,
               !.queued_len = 0, !.short_packet = FALSE, !.zlp_sent = FALSE]

\* a dcd_edpt_xfer that arms the hardware whatever the endpoint number
edpt_xfer_anyep(ep_addr, buffer, total_bytes, who) ==
  LET epnum == tu_edpt_number(ep_addr)
      dir == tu_edpt_dir(ep_addr)
  IN /\ xfer_status' = [xfer_status EXCEPT ![epnum][dir] =
                           xfer_reset(@, buffer, total_bytes)]
     /\ IF dir = TUSB_DIR_OUT
          THEN /\ USBCTL' = USBCTL \ {"DIR"}
               /\ USBOEPCNT_0' = ClearNAK(USBOEPCNT_0)
               /\ UNCHANGED <<USBIEPIFG, packets, xfer_done, in_owner>>
          ELSE /\ USBCTL' = USBCTL \cup {"DIR"}
               /\ USBIEPIFG' = USBIEPIFG \cup {0}
               /\ IF epnum = 0
                    THEN packets' = <<>> /\ xfer_done' = <<>> /\ in_owner' = who
                    ELSE UNCHANGED <<packets, xfer_done, in_owner>>
               /\ UNCHANGED USBOEPCNT_0
     /\ int_log' = <<>>
     /\ UNCHANGED <<hw_ie, USBOEPIFG, USBIFG, USBKEYPID, USBCNF, USBOEPCNF_0,
                    USBIEPCNF_0, USBIEPCNT_0, USBIEP0BUF, USBSUBLK, GIE,
                    mirrors, in_isr, _setup_packet, pc, halted, isr_events>>

\* lines 212-238: what dcd_edpt_xfer does to the driver and the hardware
edpt_xfer(ep_addr, buffer, total_bytes, who) ==
  LET epnum == tu_edpt_number(ep_addr)
      dir == tu_edpt_dir(ep_addr)
  IN /\ xfer_status' = [xfer_status EXCEPT ![epnum][dir] =
                           xfer_reset(@, buffer, total_bytes)]
     /\ IF epnum = 0 /\ dir = TUSB_DIR_OUT
          THEN /\ USBCTL' = USBCTL \ {"DIR"}
               /\ USBOEPCNT_0' = ClearNAK(USBOEPCNT_0)
               /\ UNCHANGED <<USBIEPIFG, packets, xfer_done, in_owner>>
          ELSE IF epnum = 0
          THEN /\ USBCTL' = USBCTL \cup {"DIR"}
               /\ USBIEPIFG' = USBIEPIFG \cup {0}
               /\ packets' = <<>>
               /\ xfer_done' = <<>>
               /\ in_owner' = who
               /\ UNCHANGED USBOEPCNT_0
          ELSE UNCHANGED <<USBCTL, USBOEPCNT_0, USBIEPIFG, packets, xfer_done,
                           in_owner>>
     /\ int_log' = <<>>
     /\ UNCHANGED <<hw_ie, USBOEPIFG, USBIFG, USBKEYPID, USBCNF, USBOEPCNF_0,
                    USBIEPCNF_0, USBIEPCNT_0, USBIEP0BUF, USBSUBLK, GIE,
                    mirrors, in_isr, _setup_packet, pc, halted, isr_events>>

dcd_edpt_xfer(ep_addr, buffer, total_bytes) ==
  /\ MainRuns /\ pc = "main"
  /\ edpt_xfer(ep_addr, buffer, total_bytes, "dcd_edpt_xfer")
  /\ ret' = "true"
  /\ UNCHANGED USBFUNADR

dcd_set_address(dev_addr) ==
  /\ MainRuns /\ pc = "main"
  /\ USBFUNADR' = dev_addr
  /\ edpt_xfer(tu_edpt_addr(0, TUSB_DIR_IN), NULL, 0, "dcd_set_address")
  /\ UNCHANGED ret

\* lines 198-204: the descriptor is not looked at
dcd_edpt_open(desc_edpt) ==
  /\ MainRuns /\ pc = "main"
  /\ ret' = "false"
  /\ int_log' = <<>>
  /\ UNCHANGED <<hw_ie, hw_ifg, hw_cfg, hw_ep0, GIE, mirrors, in_isr,
                 _setup_packet, xfer_status, pc, halted, isr_events, packets,
                 xfer_done, in_owner>>

(***************************************************************************)
(* transmit_packet                                                         *)
(***************************************************************************)
\* a completion test that forgets the zero-length packet already sent
xfer_is_complete_nozlp(xfer) ==
  xfer.total_len # 0 /\ xfer.total_len = xfer.queued_len

\* line 270: the completion test
xfer_is_complete(xfer) ==
  LET zlp == (xfer.total_len = 0)
  IN (~zlp /\ xfer.total_len = xfer.queued_len) \/ xfer.zlp_sent

\* lines 277-278: the size of the next packet (uint16_t remaining, uint8_t
\* xfer_size)
packet_size(xfer) ==
  LET remaining == (xfer.total_len - xfer.queued_len) % U16
  IN (IF xfer.max_size < xfer.total_len THEN xfer.max_size ELSE remaining) % U8

\* lines 286-290: the byte copy into the packet buffer; byte i of the packet
\* is the byte at base[i], base = buffer + queued_len
copy_packet(ep0in_buf, xfer, xfer_size) ==
  [i \in DOMAIN ep0in_buf |->
     IF i < xfer_size THEN <<xfer.buffer, xfer.queued_len + i>>
     ELSE ep0in_buf[i]]

\* a transmit_packet that reports completion in the invocation that writes
\* the last packet
transmit_packet_eager(xfer, iepcnt, ep0in_buf) ==
  IF xfer_is_complete(xfer)
    THEN [xfer |-> xfer, cnt |-> iepcnt, buf |-> ep0in_buf,
          events |-> << <<"xfer_complete", xfer.queued_len, 0>> >>,
          written |-> <<>>]
    ELSE LET xfer_size == packet_size(xfer)
             queued == (xfer.queued_len + xfer_size) % U16
         IN [xfer |-> [xfer EXCEPT
                         !.queued_len = queued,
                         !.zlp_sent = IF xfer.total_len = 0 THEN TRUE ELSE @],
             cnt |-> ClearNAK((((iepcnt \div 16) * 16) + xfer_size) % U8),
             buf |-> copy_packet(ep0in_buf, xfer, xfer_size),
             events |-> IF queued = xfer.total_len
                          THEN << <<"xfer_complete", queued, 0>> >> ELSE <<>>,
             written |-> <<xfer_size>>]

\* lines 263-295 for ep_num = 0: the new record, count register and packet
\* buffer, the events emitted (a transfer-complete event carries queued_len
\* and ep_num) and the sizes of the packets handed to hardware
transmit_packet(xfer, iepcnt, ep0in_buf) ==
  IF xfer_is_complete(xfer)
    THEN [xfer |-> xfer, cnt |-> iepcnt, buf |-> ep0in_buf,
          events |-> << <<"xfer_complete", xfer.queued_len, 0>> >>,
          written |-> <<>>]
    ELSE LET xfer_size == packet_size(xfer)
         IN [xfer |-> [xfer EXCEPT
                         !.queued_len = (xfer.queued_len + xfer_size) % U16,
                         !.zlp_sent = IF xfer.total_len = 0 THEN TRUE ELSE @],
             cnt |-> ClearNAK((((iepcnt \div 16) * 16) + xfer_size) % U8),
             buf |-> copy_packet(ep0in_buf, xfer, xfer_size),
             events |-> <<>>,
             written |-> <<xfer_size>>]

\* the observer logs keep a bounded number of entries
LogAppend(log, new, max) ==
  IF Len(log) + Len(new) <= max THEN log \o new ELSE log

(***************************************************************************)
(* USB_UBM_ISR                                                             *)
(***************************************************************************)
\* a SETUP packet handled in the setup-received case of the switch
setup_events_in_case ==
  IF USBVECINT = USBVECINT_SETUP_PACKET_RECEIVED
    THEN << <<"setup", USBSUBLK>> >> ELSE <<>>

\* lines 313-318 and 297-307: the SETUP flag is sampled and the SETUP buffer
\* copied before USBVECINT is read
setup_events == IF "SETUPIFG" \in USBIFG THEN << <<"setup", USBSUBLK>> >> ELSE <<>>

isr_prelude ==
  /\ ~halted /\ IntRequest
  /\ _setup_packet' = IF "SETUPIFG" \in USBIFG THEN USBSUBLK ELSE _setup_packet
  /\ int_log' = <<>>

\* a bus reset handler that leaves the IN direction of endpoint 0 as it is
isr_bus_reset_nonak ==
  /\ isr_prelude
  /\ USBVECINT = USBVECINT_RSTR
  /\ USBIFG' = USBIFG \ {"RSTRIFG"}
  /\ xfer_status' = [xfer_status EXCEPT
                       ![0][TUSB_DIR_OUT].max_size = EP0_MAX_SIZE,
                       ![0][TUSB_DIR_IN].max_size = EP0_MAX_SIZE]
  /\ USBKEYPID' = 0
  /\ USBOEPCNF_0' = USBOEPCNF_0 \cup {"UBME", "USBIIE"}
  /\ USBIEPCNF_0' = USBIEPCNF_0 \cup {"UBME", "USBIIE"}
  /\ USBOEPIE' = USBOEPIE \cup {0}
  /\ USBIEPIE' = USBIEPIE \cup {0}
  /\ USBOEPCNT_0' = SetNAK(USBOEPCNT_0)
  /\ USBCTL' = USBCTL \cup {"FEN"}
  /\ USBIE' = USBIE \cup {"SETUPIE"}
  /\ isr_events' = setup_events \o << <<"vector", USBVECINT_RSTR>>,
                                      <<"bus_reset", 0>> >>
  /\ UNCHANGED <<USBPWRCTL, USBOEPIFG, USBIEPIFG, USBCNF, USBFUNADR,
                 USBIEPCNT_0, USBIEP0BUF, USBSUBLK, GIE, mirrors, in_isr, pc,
                 halted, packets, xfer_done, in_owner, ret>>

\* lines 60-88 and 324-327
isr_bus_reset ==
  /\ isr_prelude
  /\ USBVECINT = USBVECINT_RSTR
  /\ USBIFG' = USBIFG \ {"RSTRIFG"}
  /\ xfer_status' = [xfer_status EXCEPT
                       ![0][TUSB_DIR_OUT].max_size = EP0_MAX_SIZE,
                       ![0][TUSB_DIR_IN].max_size = EP0_MAX_SIZE]
  /\ USBKEYPID' = 0
  /\ USBOEPCNF_0' = USBOEPCNF_0 \cup {"UBME", "USBIIE"}
  /\ USBIEPCNF_0' = USBIEPCNF_0 \cup {"UBME", "USBIIE"}
  /\ USBOEPIE' = USBOEPIE \cup {0}
  /\ USBIEPIE' = USBIEPIE \cup {0}
  /\ USBOEPCNT_0' = SetNAK(USBOEPCNT_0)
  /\ USBIEPCNT_0' = SetNAK(USBIEPCNT_0)
  /\ USBCTL' = USBCTL \cup {"FEN"}
  /\ USBIE' = USBIE \cup {"SETUPIE"}
  /\ isr_events' = setup_events \o << <<"vector", USBVECINT_RSTR>>,
                                      <<"bus_reset", 0>> >>
  /\ UNCHANGED <<USBPWRCTL, USBOEPIFG, USBIEPIFG, USBCNF, USBFUNADR,
                 USBIEP0BUF, USBSUBLK, GIE, mirrors, in_isr, pc, halted,
                 packets, xfer_done, in_owner, ret>>

\* lines 330-331
isr_setup ==
  /\ isr_prelude
  /\ USBVECINT = USBVECINT_SETUP_PACKET_RECEIVED
  /\ USBIFG' = USBIFG \ {"SETUPIFG"}
  /\ isr_events' = setup_events \o
                     << <<"vector", USBVECINT_SETUP_PACKET_RECEIVED>> >>
  /\ UNCHANGED <<hw_ie, USBOEPIFG, USBIEPIFG, hw_cfg, hw_ep0, GIE, mirrors,
                 in_isr, xfer_status, pc, halted, packets, xfer_done,
                 in_owner, ret>>

\* lines 333-335
isr_input_endpoint0 ==
  /\ isr_prelude
  /\ USBVECINT = USBVECINT_INPUT_ENDPOINT0
  /\ USBIEPIFG' = USBIEPIFG \ {0}
  /\ LET r == transmit_packet(xfer_status[0][TUSB_DIR_IN], USBIEPCNT_0,
                              USBIEP0BUF)
     IN /\ xfer_status' = [xfer_status EXCEPT ![0][TUSB_DIR_IN] = r.xfer]
        /\ USBIEPCNT_0' = r.cnt
        /\ USBIEP0BUF' = r.buf
        /\ isr_events' = setup_events \o
                           << <<"vector", USBVECINT_INPUT_ENDPOINT0>> >> \o
                           r.events
        /\ packets' = LogAppend(packets, r.written, MaxPackets)
        /\ xfer_done' = LogAppend(xfer_done,
                                  [i \in 1 .. Len(r.events) |-> r.events[i][2]], 2)
  /\ UNCHANGED <<hw_ie, USBOEPIFG, USBIFG, hw_cfg, USBOEPCNT_0, USBSUBLK, GIE,
                 mirrors, in_isr, pc, halted, in_owner, ret>>

\* lines 337-339 and 257-261: receive_packet does nothing
isr_output_endpoint0 ==
  /\ isr_prelude
  /\ USBVECINT = USBVECINT_OUTPUT_ENDPOINT0
  /\ USBOEPIFG' = USBOEPIFG \ {0}
  /\ isr_events' = setup_events \o
                     << <<"vector", USBVECINT_OUTPUT_ENDPOINT0>> >>
  /\ UNCHANGED <<hw_ie, USBIEPIFG, USBIFG, hw_cfg, hw_ep0, GIE, mirrors,
                 in_isr, xfer_status, pc, halted, packets, xfer_done,
                 in_owner, ret>>

\* a default branch that returns from the ISR
isr_default_return ==
  /\ isr_prelude
  /\ USBVECINT \notin {USBVECINT_RSTR, USBVECINT_SETUP_PACKET_RECEIVED,
                       USBVECINT_INPUT_ENDPOINT0, USBVECINT_OUTPUT_ENDPOINT0}
  /\ USBPWRCTL' = IF USBVECINT = USBVECINT_PWR_VBUSOn
                    THEN USBPWRCTL \ {"VBONIFG"} ELSE USBPWRCTL
  /\ isr_events' = setup_events \o << <<"vector", USBVECINT>> >>
  /\ UNCHANGED <<USBOEPIE, USBIEPIE, USBIE, hw_ifg, hw_cfg, hw_ep0, mirrors,
                 in_isr, xfer_status, pc, packets, xfer_done, in_owner, ret,
                 halted, GIE>>

\* lines 341-343: any other vector: while(true), inside the ISR, where the
\* hardware has cleared GIE
isr_default ==
  /\ isr_prelude
  /\ USBVECINT \notin {USBVECINT_RSTR, USBVECINT_SETUP_PACKET_RECEIVED,
                       USBVECINT_INPUT_ENDPOINT0, USBVECINT_OUTPUT_ENDPOINT0}
  /\ USBPWRCTL' = IF USBVECINT = USBVECINT_PWR_VBUSOn
                    THEN USBPWRCTL \ {"VBONIFG"} ELSE USBPWRCTL
  /\ halted' = TRUE
  /\ GIE' = FALSE
  /\ isr_events' = setup_events \o << <<"vector", USBVECINT>> >>
  /\ UNCHANGED <<USBOEPIE, USBIEPIE, USBIE, hw_ifg, hw_cfg, hw_ep0, mirrors,
                 in_isr, xfer_status, pc, packets, xfer_done, in_owner, ret>>

USB_UBM_ISR ==
  \/ isr_bus_reset
  \/ isr_setup
  \/ isr_input_endpoint0
  \/ isr_output_endpoint0
  \/ isr_default


(***************************************************************************)
(* The host and the USB module, as the driver's comments describe them.    *)
(***************************************************************************)
\* the host resets the bus once the pull-up signals the device
HwBusReset ==
  /\ {"USB_EN", "PUR_EN"} \subseteq USBCNF
  /\ "RSTRIFG" \notin USBIFG
  /\ USBIFG' = USBIFG \cup {"RSTRIFG"}
  /\ UNCHANGED <<hw_ie, USBOEPIFG, USBIEPIFG, hw_cfg, hw_ep0, GIE, mirrors,
                 in_isr, _setup_packet, xfer_status, pc, halted, observers>>

\* a SETUP packet arrives: the module fills the SETUP buffer, NAKs both
\* directions of endpoint 0 and raises SETUPIFG
HwSetup(s) ==
  /\ "FEN" \in USBCTL /\ "USB_EN" \in USBCNF
  /\ "SETUPIFG" \notin USBIFG
  /\ USBSUBLK' = s
  /\ USBIFG' = USBIFG \cup {"SETUPIFG"}
  /\ USBOEPCNT_0' = SetNAK(USBOEPCNT_0)
  /\ USBIEPCNT_0' = SetNAK(USBIEPCNT_0)
  /\ UNCHANGED <<hw_ie, USBOEPIFG, USBIEPIFG, hw_cfg, USBIEP0BUF, GIE, mirrors,
                 in_isr, _setup_packet, xfer_status, pc, halted, observers>>

\* the host takes and acknowledges the IN packet the driver armed: the
\* module sets NAK again and raises the endpoint-0 IN flag
HwInAck ==
  /\ "FEN" \in USBCTL /\ "UBME" \in USBIEPCNF_0
  /\ ~HasNAK(USBIEPCNT_0)
  /\ USBIEPCNT_0' = SetNAK(USBIEPCNT_0)
  /\ USBIEPIFG' = IF "USBIIE" \in USBIEPCNF_0 THEN USBIEPIFG \cup {0}
                  ELSE USBIEPIFG
  /\ UNCHANGED <<hw_ie, USBOEPIFG, USBIFG, hw_cfg, USBOEPCNT_0, USBIEP0BUF,
                 USBSUBLK, GIE, mirrors, in_isr, _setup_packet, xfer_status,
                 pc, halted, observers>>

\* the host sends an OUT packet to endpoint 0 while it is ready
HwOutRecv ==
  /\ "FEN" \in USBCTL /\ "UBME" \in USBOEPCNF_0
  /\ ~HasNAK(USBOEPCNT_0)
  /\ USBOEPCNT_0' = SetNAK(USBOEPCNT_0)
  /\ USBOEPIFG' = IF "USBIIE" \in USBOEPCNF_0 THEN USBOEPIFG \cup {0}
                  ELSE USBOEPIFG
  /\ UNCHANGED <<hw_ie, USBIEPIFG, USBIFG, hw_cfg, USBIEPCNT_0, USBIEP0BUF,
                 USBSUBLK, GIE, mirrors, in_isr, _setup_packet, xfer_status,
                 pc, halted, observers>>

\* VBUS rises: the power section raises VBONIFG
HwVbusOn ==
  /\ "VBONIFG" \notin USBPWRCTL
  /\ USBPWRCTL' = USBPWRCTL \cup {"VBONIFG"}
  /\ UNCHANGED <<USBOEPIE, USBIEPIE, USBIE, hw_ifg, hw_cfg, hw_ep0, GIE,
                 mirrors, in_isr, _setup_packet, xfer_status, pc, halted,
                 observers>>

\* the application, which owns the power-control interrupts the driver only
\* saves and restores, writes the three enable bits of USBPWRCTL
AppWritePwrIE(bits) ==
  /\ MainRuns /\ pc = "main"
  /\ bits # USBPWRCTL \cap PwrIE
  /\ USBPWRCTL' = (USBPWRCTL \ PwrIE) \cup bits
  /\ int_log' = <<>>
  /\ UNCHANGED <<USBOEPIE, USBIEPIE, USBIE, hw_ifg, hw_cfg, hw_ep0, GIE,
                 mirrors, in_isr, _setup_packet, xfer_status, pc, halted,
                 isr_events, packets, xfer_done, in_owner, ret>>

(***************************************************************************)
(* Specifications.                                                         *)
(***************************************************************************)
SpecLens == {0, EP0_MAX_SIZE}

\* the whole driver from power-on: every port call, the ISR, the host
Next ==
  \/ dcd_init
  \/ dcd_int_disable_bic /\ UNCHANGED int_log
  \/ dcd_int_disable_save /\ UNCHANGED int_log
  \/ dcd_int_disable_clear /\ UNCHANGED int_log
  \/ dcd_int_disable_bis /\ UNCHANGED int_log
  \/ dcd_int_enable_bic /\ UNCHANGED int_log
  \/ dcd_int_enable_restore /\ UNCHANGED int_log
  \/ dcd_int_enable_bis /\ UNCHANGED int_log
  \/ \E d \in Dirs, b \in {1}, l \in SpecLens :
       dcd_edpt_xfer(tu_edpt_addr(0, d), b, l)
  \/ dcd_set_address(1)
  \/ isr_bus_reset
  \/ isr_setup
  \/ isr_input_endpoint0
  \/ isr_output_endpoint0
  \/ HwBusReset
  \/ HwSetup(1)
  \/ HwInAck
  \/ HwOutRecv

Spec == Init /\ [][Next]_vars

\* the endpoint bits and the USBIE bits the enable registers take in IntSpec
IntEpBits == {0, 1}
IntIEBits == {"RSTRIE", "SETUPIE"}

\* dcd_int_disable and dcd_int_enable in any order, from every combination of
\* values of the four tracked enables and of GIE, with the application
\* rewriting the power-control enables between calls
InitInt ==
  /\ PowerOnRest
  /\ USBOEPIE \in SUBSET IntEpBits
  /\ USBIEPIE \in SUBSET IntEpBits
  /\ USBIE \in SUBSET IntIEBits
  /\ USBPWRCTL \in {{"VUSBEN", "SLDOEN"} \cup e : e \in SUBSET PwrIE}
  /\ GIE \in BOOLEAN

IntNext ==
  \/ dcd_int_disable_bic /\ int_log' = LogCall("disable")
  \/ dcd_int_disable_save /\ UNCHANGED int_log
  \/ dcd_int_disable_clear /\ UNCHANGED int_log
  \/ dcd_int_disable_bis /\ UNCHANGED int_log
  \/ dcd_int_enable_bic /\ int_log' = LogCall("enable")
  \/ dcd_int_enable_restore /\ UNCHANGED int_log
  \/ dcd_int_enable_bis /\ UNCHANGED int_log
  \/ \E bits \in SUBSET PwrIE : AppWritePwrIE(bits)

IntSpec == InitInt /\ [][IntNext]_vars

\* the state after dcd_init, dcd_int_enable and the first bus reset
InitReady ==
  /\ USBKEYPID = 0
  /\ USBCNF = {"USB_EN", "PUR_EN"}
  /\ USBCTL = {"FEN"}
  /\ USBFUNADR = 0
  /\ USBOEPIE = {0}
  /\ USBIEPIE = {0}
  /\ USBIE = {"RSTRIE", "SETUPIE"}
  /\ USBPWRCTL = {"VUSBEN", "SLDOEN"}
  /\ USBOEPIFG = {}
  /\ USBIEPIFG = {}
  /\ USBIFG = {}
  /\ USBOEPCNF_0 = {"UBME", "USBIIE"}
  /\ USBIEPCNF_0 = {"UBME", "USBIIE"}
  /\ USBOEPCNT_0 = NAK
  /\ USBIEPCNT_0 = NAK
  /\ USBIEP0BUF = ZeroBuf
  /\ USBSUBLK = 0
  /\ GIE = TRUE
  /\ usbiepie_mirror = {}
  /\ usboepie_mirror = {}
  /\ usbie_mirror = {}
  /\ usbpwrctl_mirror = {}
  /\ in_isr = FALSE
  /\ _setup_packet = 0
  /\ xfer_status = [e \in EpNums |-> [d \in Dirs |->
                      IF e = 0 THEN [ZeroXfer EXCEPT !.max_size = EP0_MAX_SIZE]
                      ELSE ZeroXfer]]
  /\ pc = "main"
  /\ halted = FALSE
  /\ isr_events = << <<"vector", USBVECINT_RSTR>>, <<"bus_reset", 0>> >>
  /\ packets = <<>>
  /\ xfer_done = <<>>
  /\ in_owner = "none"
  /\ int_log = <<>>
  /\ ret = "none"

\* IN transfers on endpoint 0 of every length up to MaxLen, queued at any
\* time, driven by the endpoint-0 IN interrupt and the host's
\* acknowledgements; the host acknowledges at most MaxPackets packets of a
\* transfer
XferNext ==
  \/ \E b \in Buffers, l \in 0 .. MaxLen :
       dcd_edpt_xfer(tu_edpt_addr(0, TUSB_DIR_IN), b, l)
  \/ isr_input_endpoint0
  \/ HwInAck /\ Len(packets) < MaxPackets

XferSpec == InitReady /\ [][XferNext]_vars

\* no IN transfer on endpoint 0 is queued and not yet reported complete
Ep0InIdle == in_owner = "none" \/ xfer_done # <<>>

\* IN transfers on endpoint 0 queued one after the other's completion; a
\* pending interrupt is served and the host acknowledges every packet
FairXferNext ==
  \/ \E b \in Buffers, l \in 0 .. MaxLen :
       Ep0InIdle /\ dcd_edpt_xfer(tu_edpt_addr(0, TUSB_DIR_IN), b, l)
  \/ isr_input_endpoint0
  \/ HwInAck

FairXferSpec ==
  /\ InitReady /\ [][FairXferNext]_vars
  /\ WF_vars(isr_input_endpoint0) /\ WF_vars(HwInAck)

\* dcd_set_address with every address, each call after the completion of
\* the status transfer of the one before
AddrNext ==
  \/ \E a \in 0 .. MaxAddr : Ep0InIdle /\ dcd_set_address(a)
  \/ isr_input_endpoint0
  \/ HwInAck

AddrSpec ==
  /\ InitReady /\ [][AddrNext]_vars
  /\ WF_vars(isr_input_endpoint0) /\ WF_vars(HwInAck)

\* the driver after the first bus reset with the host active, the
\* application enabling or disabling the VBUS-on interrupt, and VBUS rising
EnvNext ==
  \/ isr_bus_reset
  \/ isr_setup
  \/ isr_input_endpoint0
  \/ isr_output_endpoint0
  \/ isr_default
  \/ \E d \in Dirs, l \in SpecLens : dcd_edpt_xfer(tu_edpt_addr(0, d), 1, l)
  \/ HwBusReset
  \/ \E sp \in SetupVals : HwSetup(sp)
  \/ HwInAck
  \/ HwOutRecv
  \/ HwVbusOn
  \/ \E bits \in {{}, {"VBONIE"}} : AppWritePwrIE(bits)

EnvSpec == InitReady /\ [][EnvNext]_vars

\* the records of endpoints 1..7 that a transfer has been queued on
UsedRecords ==
  {ed \in (EpNums \ {0}) \X Dirs : xfer_status[ed[1]][ed[2]].buffer # NULL}

\* the buffers handed to dcd_edpt_xfer in EpSpec: two on endpoint 0, whose
\* transfers the ISR advances, one on the endpoints the driver only records
EpBufs(e) == IF e = 0 THEN {1, 2} ELSE {2}

\* the lengths handed to dcd_edpt_xfer in EpSpec
EpLens(e) == IF e = 0 THEN SpecLens ELSE {EP0_MAX_SIZE}

\* dcd_edpt_xfer on every endpoint and direction, at any time, with IN
\* transfers on endpoint 0 in progress; at most MaxUsed records of endpoints
\* 1..7 are in use
EpNext ==
  \/ \E e \in EpNums, d \in Dirs : \E b \in EpBufs(e), l \in EpLens(e) :
       /\ e # 0 => Cardinality(UsedRecords \cup {<<e, d>>}) <= MaxUsed
       /\ dcd_edpt_xfer(tu_edpt_addr(e, d), b, l)
  \/ isr_input_endpoint0
  \/ HwInAck

EpSpec == InitReady /\ [][EpNext]_vars

\* the registers as the code that ran before the driver may have left them:
\* the VBUS-on interrupt and the interrupt of OUT endpoint 1 enabled or not
InitIe ==
  /\ PowerOnRest
  /\ USBOEPIE \in {{}, {1}}
  /\ USBIEPIE = {}
  /\ USBIE = {}
  /\ USBPWRCTL \in {{"VUSBEN", "SLDOEN"}, {"VUSBEN", "SLDOEN", "VBONIE"}}
  /\ GIE = FALSE

\* every port call and every branch of the ISR, with the host resetting the
\* bus, sending SETUP packets and moving packets on endpoint 0, and VBUS
\* rising
IeNext ==
  \/ dcd_init
  \/ dcd_int_disable_bic /\ UNCHANGED int_log
  \/ dcd_int_disable_save /\ UNCHANGED int_log
  \/ dcd_int_disable_clear /\ UNCHANGED int_log
  \/ dcd_int_disable_bis /\ UNCHANGED int_log
  \/ dcd_int_enable_bic /\ UNCHANGED int_log
  \/ dcd_int_enable_restore /\ UNCHANGED int_log
  \/ dcd_int_enable_bis /\ UNCHANGED int_log
  \/ \E d \in Dirs : dcd_edpt_xfer(tu_edpt_addr(0, d), 1, EP0_MAX_SIZE)
  \/ isr_bus_reset
  \/ isr_setup
  \/ isr_input_endpoint0
  \/ isr_output_endpoint0
  \/ isr_default
  \/ HwBusReset
  \/ HwSetup(1)
  \/ HwInAck
  \/ HwOutRecv
  \/ HwVbusOn

IeSpec == InitIe /\ [][IeNext]_vars

\* lengths of the transfers queued over one another in OverSpec: none, less
\* than a packet, one packet, one packet and a byte, two packets
OverLens == {0, EP0_MAX_SIZE \div 2, EP0_MAX_SIZE, EP0_MAX_SIZE + 1,
             2 * EP0_MAX_SIZE}

\* IN transfers on endpoint 0 queued at any time, over one another
OverNext ==
  \/ \E b \in Buffers, l \in OverLens :
       dcd_edpt_xfer(tu_edpt_addr(0, TUSB_DIR_IN), b, l)
  \/ isr_input_endpoint0
  \/ HwInAck /\ Len(packets) < MaxPackets

OverSpec == InitReady /\ [][OverNext]_vars

\* the endpoint descriptors handed to dcd_edpt_open: an endpoint address
\* each, of the first and of the last endpoint
Descriptors == {tu_edpt_addr(e, d) : e \in {0, NumEndpoints - 1}, d \in Dirs}

\* EpSpec with dcd_edpt_open called at any time
InertNext ==
  \/ \E e \in EpNums, d \in Dirs : \E b \in EpBufs(e), l \in EpLens(e) :
       /\ e # 0 => Cardinality(UsedRecords \cup {<<e, d>>}) <= MaxUsed
       /\ dcd_edpt_xfer(tu_edpt_addr(e, d), b, l)
  \/ \E desc \in Descriptors : dcd_edpt_open(desc)
  \/ isr_input_endpoint0
  \/ HwInAck

InertSpec == InitReady /\ [][InertNext]_vars

(***************************************************************************)
(* Claims about the IN transfer engine.                                    *)
(***************************************************************************)
IsPrefix(a, b) == Len(a) <= Len(b) /\ \A i \in 1 .. Len(a) : a[i] = b[i]

\* the record of endpoint 0, direction IN
Ep0In == xfer_status[0][TUSB_DIR_IN]

\* the packet sizes a transfer of L bytes with packet size M is to produce:
\* floor(L / M) packets of M bytes, then one of L mod M bytes if that is not
\* zero; one packet of zero bytes when L = 0
ExpectedPackets(L, M) ==
  IF L = 0 THEN <<0>>
  ELSE [i \in 1 .. ((L + M - 1) \div M) |-> IF i * M <= L THEN M ELSE L % M]

\* C1: an IN transfer of L bytes queued on endpoint 0 with packet size M = 8
\* writes to hardware exactly floor(L / M) packets of M bytes followed by one
\* of L mod M bytes when that is not zero (one zero-length packet when L = 0),
\* and its completion then reports L bytes.
C1_PacketSequence ==
  in_owner # "none" =>
    /\ IsPrefix(packets, ExpectedPackets(Ep0In.total_len, Ep0In.max_size))
    /\ xfer_done # <<>> =>
         /\ packets = ExpectedPackets(Ep0In.total_len, Ep0In.max_size)
         /\ xfer_done = <<Ep0In.total_len>>

\* C2: in every state every record has queued_len <= total_len, and no step
\* other than a new dcd_edpt_xfer on the record makes its queued_len smaller.
C2_QueuedLen ==
  /\ [](\A e \in EpNums, d \in Dirs :
          xfer_status[e][d].queued_len <= xfer_status[e][d].total_len)
  /\ [][\A e \in EpNums, d \in Dirs :
          xfer_status'[e][d].queued_len < xfer_status[e][d].queued_len
            => xfer_status'[e][d].queued_len = 0 /\ ret' = "true"]_vars

\* C3: with every interrupt served and every packet acknowledged, an IN
\* transfer queued on endpoint 0 is reported complete, once, with
\* bytes_transferred = queued_len = total_len.
C3_CompleteOnce ==
  /\ [](Len(xfer_done) <= 1)
  /\ (in_owner # "none" /\ xfer_done = <<>>)
       ~> (/\ xfer_done = <<Ep0In.total_len>>
           /\ Ep0In.queued_len = Ep0In.total_len)

\* the transfer-complete events among the events of the last ISR invocation
CompleteEvents(evs) == SelectSeq(evs, LAMBDA ev : ev[1] = "xfer_complete")

\* the invocation wrote one packet to hardware and emitted no event
WrotePacket ==
  /\ Len(packets') = Len(packets) + 1
  /\ LET size == packets'[Len(packets')]
     IN /\ USBIEPCNT_0' % 16 = size
        /\ \A i \in 0 .. (size - 1) :
             USBIEP0BUF'[i] = <<Ep0In.buffer, Ep0In.queued_len + i>>
  /\ ~HasNAK(USBIEPCNT_0')
  /\ CompleteEvents(isr_events') = <<>>
  /\ xfer_done' = xfer_done

\* the invocation emitted one transfer-complete event and wrote nothing
ReportedComplete ==
  /\ Len(CompleteEvents(isr_events')) = 1
  /\ xfer_done' = Append(xfer_done, CompleteEvents(isr_events')[1][2])
  /\ UNCHANGED <<packets, USBIEPCNT_0, USBIEP0BUF>>

\* C8: every invocation of the packet-transmission step for endpoint 0
\* either writes exactly one packet to hardware and emits no event, or emits
\* exactly one transfer-complete event and writes nothing; so a transfer whose
\* length is a positive multiple of max_size completes on the interrupt after
\* its last full packet, with no zero-length packet written.
C8_OnePacketOrComplete ==
  /\ [][isr_input_endpoint0 =>
          (WrotePacket /\ ~ReportedComplete) \/ (ReportedComplete /\ ~WrotePacket)]_vars
  /\ [](/\ xfer_done # <<>> /\ Ep0In.total_len > 0
        /\ Ep0In.total_len % Ep0In.max_size = 0
        => packets = [i \in 1 .. (Ep0In.total_len \div Ep0In.max_size) |->
                        Ep0In.max_size])

\* an 8-byte transfer with max_size 8 has written one packet of 8 bytes and
\* has then been reported complete
C8_Witness ==
  /\ Ep0In.total_len = EP0_MAX_SIZE /\ Ep0In.max_size = EP0_MAX_SIZE
  /\ packets = <<EP0_MAX_SIZE>>
  /\ xfer_done = <<EP0_MAX_SIZE>>
  /\ CompleteEvents(isr_events) # <<>>

\* C9: dcd_set_address(a) writes a to the address register and queues a
\* zero-length IN transfer on endpoint 0 with the IN-endpoint-0 flag forced;
\* the interrupts that follow write one packet of size 0, set zlp_sent, and
\* then emit one transfer-complete event with bytes_transferred = 0.
C9_SetAddress ==
  /\ [][\A a \in 0 .. MaxAddr : dcd_set_address(a) =>
          /\ USBFUNADR' = a
          /\ Ep0In'.total_len = 0 /\ Ep0In'.queued_len = 0
          /\ ~Ep0In'.zlp_sent
          /\ 0 \in USBIEPIFG']_vars
  /\ [](in_owner = "dcd_set_address" =>
          /\ IsPrefix(packets, <<0>>)
          /\ Ep0In.zlp_sent = (packets = <<0>>)
          /\ IsPrefix(xfer_done, <<0>>)
          /\ xfer_done # <<>> => packets = <<0>>)
  /\ (in_owner = "dcd_set_address" /\ xfer_done = <<>>)
       ~> (xfer_done = <<0>> /\ packets = <<0>> /\ Ep0In.zlp_sent)

\* address 127 is in the register and the status transfer is complete
C9_Witness ==
  /\ in_owner = "dcd_set_address" /\ USBFUNADR = 127
  /\ packets = <<0>> /\ xfer_done = <<0>> /\ Ep0In.zlp_sent

(***************************************************************************)
(* Claims about dcd_int_disable and dcd_int_enable.                        *)
(***************************************************************************)
\* the operations of the calls logged since the last other mutation
LogOps == [i \in 1 .. Len(int_log) |-> int_log[i].op]
LastCall == int_log[Len(int_log)]

\* C4: dcd_int_disable followed immediately by dcd_int_enable leaves the
\* four tracked interrupt-enable registers equal to their values before the
\* disable, whatever these were, and the disabled flag false.
C4_RoundTrip ==
  (/\ pc = "main" /\ Len(int_log) >= 2
   /\ LastCall.op = "enable"
   /\ int_log[Len(int_log) - 1].op = "disable")
  => /\ TrackedIE = int_log[Len(int_log) - 1].ie
     /\ USBPWRCTL = int_log[Len(int_log) - 1].pwrctl
     /\ ~in_isr

\* a round trip is over that began with an enable set in each of the four
C4_Witness ==
  /\ pc = "main" /\ Len(int_log) >= 2
  /\ LastCall.op = "enable"
  /\ int_log[Len(int_log) - 1].op = "disable"
  /\ \A f \in {"oep", "iep", "ie", "pwr"} :
       int_log[Len(int_log) - 1].ie[f] # {}

\* C5: dcd_int_enable called while the disabled flag is false leaves the
\* four interrupt-enable registers and the four mirrors as they were,
\* whatever the mirrors hold.
C5_EnableNoop ==
  (pc = "main" /\ int_log # <<>> /\ LastCall.op = "enable" /\ ~LastCall.flag)
  => /\ TrackedIE = LastCall.ie
     /\ USBPWRCTL = LastCall.pwrctl
     /\ Mirrors = LastCall.mir

\* such a call is over that found mirrors differing from the registers and
\* holding enables the registers did not
C5_Witness ==
  /\ pc = "main" /\ int_log # <<>>
  /\ LastCall.op = "enable" /\ ~LastCall.flag
  /\ LastCall.mir.pwr \ LastCall.ie.pwr # {}
  /\ LastCall.mir.ie # {}

\* C6: after disable, disable, enable with nothing in between, the mirrors
\* and the four registers hold zero in every tracked enable bit: the values
\* from before the first disable are lost.
C6_DoubleDisable ==
  (pc = "main" /\ LogOps = <<"disable", "disable", "enable">>)
  => TrackedIE = NoIE /\ Mirrors = NoIE

\* the sequence is over and began with an enable set in each of the four
C6_Witness ==
  /\ pc = "main" /\ LogOps = <<"disable", "disable", "enable">>
  /\ \A f \in {"oep", "iep", "ie", "pwr"} : int_log[1].ie[f] # {}
  /\ TrackedIE = NoIE

(***************************************************************************)
(* Claims about the ISR's default branch.                                  *)
(***************************************************************************)
\* the events of the last ISR invocation of the given type
EventsOf(type) == SelectSeq(isr_events, LAMBDA ev : ev[1] = type)

\* the last ISR invocation read a vector the switch has no case for
UnknownVector ==
  \E i \in 1 .. Len(isr_events) :
    /\ isr_events[i][1] = "vector"
    /\ isr_events[i][2] \notin
         {USBVECINT_RSTR, USBVECINT_SETUP_PACKET_RECEIVED,
          USBVECINT_INPUT_ENDPOINT0, USBVECINT_OUTPUT_ENDPOINT0}

\* what the driver itself holds: its variables, the interrupt enable and the
\* events it has emitted
driver_state ==
  <<mirrors, in_isr, _setup_packet, xfer_status, pc, halted, GIE, isr_events,
    xfer_done, ret>>

\* C7 as stated: an ISR invocation that reads a vector other than reset,
\* setup-received, input-endpoint-0 and output-endpoint-0 halts the driver for
\* good and emits no event, and none is emitted later.
C7_HaltNoEvent ==
  /\ [](UnknownVector =>
          /\ halted
          /\ EventsOf("setup") = <<>>
          /\ EventsOf("bus_reset") = <<>>
          /\ EventsOf("xfer_complete") = <<>>)
  /\ [][halted => UNCHANGED driver_state]_vars

\* C7 as amended: such an invocation halts the driver for good; it emits no
\* bus-reset and no transfer-complete event, and no event is emitted later;
\* it emits one setup event, before the vector read, exactly when the SETUP
\* flag was set at its entry.
C7_HaltAfterVector ==
  /\ [](UnknownVector =>
          /\ halted
          /\ EventsOf("bus_reset") = <<>>
          /\ EventsOf("xfer_complete") = <<>>
          /\ isr_events[Len(isr_events)][1] = "vector")
  /\ [](halted => UnknownVector)
  /\ [][~halted /\ halted' =>
          (EventsOf("setup"))' =
             (IF "SETUPIFG" \in USBIFG THEN << <<"setup", USBSUBLK>> >>
                                        ELSE <<>>)]_vars
  /\ [][halted => UNCHANGED driver_state]_vars

\* the driver is halted by an invocation that found the SETUP flag set
C7_Witness ==
  halted /\ UnknownVector /\ EventsOf("setup") # <<>>

(***************************************************************************)
(* Claims about dcd_edpt_xfer.                                             *)
(***************************************************************************)
\* C10: from every state, dcd_edpt_xfer on endpoint E, direction D, with
\* buffer B and length L returns true and leaves record [E][D] with buffer B,
\* total_len L, queued_len 0, short_packet and zlp_sent false and max_size as
\* it was; every other record is unchanged.
C10_XferFrame ==
  [][\A e \in EpNums, d \in Dirs, b \in {1, 2}, l \in SpecLens :
       dcd_edpt_xfer(tu_edpt_addr(e, d), b, l) =>
         /\ ret' = "true"
         /\ xfer_status'[e][d] =
              [buffer |-> b, total_len |-> l, queued_len |-> 0,
               max_size |-> xfer_status[e][d].max_size,
               short_packet |-> FALSE, zlp_sent |-> FALSE]
         /\ \A e2 \in EpNums, d2 \in Dirs :
              <<e2, d2>> # <<e, d>> =>
                xfer_status'[e2][d2] = xfer_status[e2][d2]]_vars

\* a transfer has just been queued on endpoint 0 IN while the packet of the
\* transfer before it is still armed, the last record of the table is in use
C10_Witness ==
  /\ ret = "true"
  /\ Ep0In.total_len = EP0_MAX_SIZE /\ Ep0In.queued_len = 0
  /\ 0 \in USBIEPIFG /\ ~HasNAK(USBIEPCNT_0) /\ packets = <<>>
  /\ xfer_status[NumEndpoints - 1][TUSB_DIR_OUT].buffer = 2

(***************************************************************************)
(* Claims about the endpoints other than 0.                                *)
(***************************************************************************)
\* everything but the value returned to the caller
all_but_ret ==
  <<hw_ie, hw_ifg, hw_cfg, hw_ep0, GIE, mirrors, in_isr, _setup_packet,
    xfer_status, pc, halted, isr_events, packets, xfer_done, in_owner>>

\* C11: dcd_edpt_open returns false for every descriptor and changes no
\* state; dcd_edpt_xfer on an endpoint 1..7 writes no hardware register and
\* raises no interrupt flag; no packet is ever queued or written for such an
\* endpoint (nothing is written while no transfer is queued on endpoint 0)
\* and every transfer-complete event is for endpoint 0.
C11_InertEndpoints ==
  /\ [][\A desc \in Descriptors :
          dcd_edpt_open(desc) => ret' = "false" /\ UNCHANGED all_but_ret]_vars
  /\ [][\A e \in EpNums \ {0}, d \in Dirs :
          \A b \in EpBufs(e), l \in EpLens(e) :
          dcd_edpt_xfer(tu_edpt_addr(e, d), b, l) =>
            UNCHANGED <<hw_ie, hw_ifg, hw_cfg, hw_ep0, GIE, isr_events,
                        packets, xfer_done>>]_vars
  /\ [](\A e \in EpNums \ {0}, d \in Dirs :
          xfer_status[e][d].queued_len = 0 /\ ~xfer_status[e][d].zlp_sent)
  /\ [](in_owner = "none" =>
          packets = <<>> /\ xfer_done = <<>> /\ USBIEP0BUF = ZeroBuf)
  /\ [](\A i \in 1 .. Len(isr_events) :
          isr_events[i][1] = "xfer_complete" => isr_events[i][3] = 0)

\* a transfer is queued on endpoint 7 IN, none on endpoint 0, and
\* dcd_edpt_open has returned since
C11_Witness ==
  /\ xfer_status[NumEndpoints - 1][TUSB_DIR_IN].total_len = EP0_MAX_SIZE
  /\ ret = "false" /\ in_owner = "none" /\ USBIEPIFG = {}

(***************************************************************************)
(* Claims about the mirrors and the interrupt enables in the whole driver.  *)
(***************************************************************************)
\* C12: in every reachable state of the whole driver, while the disabled flag
\* is true the mirrors are the values the four enable registers held just
\* before the most recent dcd_int_disable: the snapshot takes the registers'
\* values, nothing but a later snapshot changes the mirrors while the flag
\* stays true, and the next dcd_int_enable writes them back.
C12_MirrorsHold ==
  /\ [][pc = "dis_save" /\ pc' = "dis_clear" => Mirrors' = TrackedIE]_vars
  /\ [][in_isr /\ in_isr' /\ Mirrors' # Mirrors =>
          pc = "dis_save" /\ pc' = "dis_clear"]_vars
  /\ [][in_isr /\ pc = "en_restore" /\ pc' = "en_bis" =>
          TrackedIE' = Mirrors]_vars

(***************************************************************************)
(* Claims about the SETUP packet in the ISR.                               *)
(***************************************************************************)
\* C13: in every ISR invocation, if the SETUP flag is set at entry the SETUP
\* buffer is copied to _setup_packet and one setup event is emitted, before
\* the vector read and so before any bus-reset or transfer-complete event of
\* the invocation; if the flag is clear at entry the invocation emits no
\* setup event, whatever the vector.
C13_SetupFirst ==
  [][USB_UBM_ISR =>
       /\ Len(EventsOf("vector")') = 1
       /\ IF "SETUPIFG" \in USBIFG
            THEN /\ _setup_packet' = USBSUBLK
                 /\ EventsOf("setup")' = << <<"setup", USBSUBLK>> >>
                 /\ isr_events'[1][1] = "setup"
                 /\ isr_events'[2][1] = "vector"
            ELSE /\ EventsOf("setup")' = <<>>
                 /\ _setup_packet' = _setup_packet
                 /\ isr_events'[1][1] = "vector"]_vars

\* an invocation found the SETUP flag set and read the reset vector: the
\* setup event precedes the bus-reset event
C13_Witness ==
  /\ isr_events = << <<"setup", 1>>, <<"vector", USBVECINT_RSTR>>,
                     <<"bus_reset", 0>> >>
  /\ _setup_packet = 1

(***************************************************************************)
(* Claims about the bus reset.                                             *)
(***************************************************************************)
\* the fields of a record a bus reset is to leave alone
kept_fields(xfer) ==
  <<xfer.buffer, xfer.total_len, xfer.queued_len, xfer.zlp_sent>>

\* C14: after an ISR invocation that reads the reset vector, from any state:
\* max_size of endpoint 0 is 8 in both directions, the endpoint-0 IN and OUT
\* and the SETUP interrupt enables are set, both directions of endpoint 0
\* are NAKed, the configuration key is locked, buffer, total_len, queued_len
\* and zlp_sent of every record are unchanged, and one bus_reset event has
\* been emitted, as the last thing the invocation does.
C14_BusReset ==
  [][USB_UBM_ISR /\ USBVECINT = USBVECINT_RSTR =>
       /\ \A d \in Dirs : xfer_status'[0][d].max_size = EP0_MAX_SIZE
       /\ 0 \in USBIEPIE' /\ 0 \in USBOEPIE' /\ "SETUPIE" \in USBIE'
       /\ HasNAK(USBOEPCNT_0') /\ HasNAK(USBIEPCNT_0')
       /\ USBKEYPID' = 0
       /\ \A e \in EpNums, d \in Dirs :
            kept_fields(xfer_status'[e][d]) = kept_fields(xfer_status[e][d])
       /\ EventsOf("bus_reset")' = << <<"bus_reset", 0>> >>
       /\ isr_events'[Len(isr_events')][1] = "bus_reset"]_vars

\* a bus reset has been handled while an IN transfer on endpoint 0 had its
\* first packet armed: the record is as it was and the endpoint is NAKed
C14_Witness ==
  /\ isr_events = << <<"vector", USBVECINT_RSTR>>, <<"bus_reset", 0>> >>
  /\ Ep0In.buffer = 1 /\ Ep0In.total_len = EP0_MAX_SIZE
  /\ Ep0In.queued_len = EP0_MAX_SIZE
  /\ packets = <<EP0_MAX_SIZE>> /\ xfer_done = <<>>
  /\ USBIEPIFG = {} /\ HasNAK(USBIEPCNT_0)

(***************************************************************************)
(* Claims about the global interrupt enable around the snapshot.           *)
(***************************************************************************)
\* C15: the ISR never runs between the first and the last access to the
\* mirrors or the enable registers in dcd_int_disable or dcd_int_enable: GIE
\* is clear from before the first access, and is set again only after the
\* disabled flag has been written.
C15_NoIsrInside ==
  /\ [](pc # "main" => ~GIE)
  /\ [][USB_UBM_ISR => pc = "main" /\ pc' = "main"]_vars
  /\ [][~GIE /\ GIE' =>
          \/ pc = "dis_bis" /\ in_isr /\ TrackedIE = NoIE
          \/ pc = "en_bis" /\ ~in_isr]_vars
  /\ [][pc = "main" /\ pc' # "main" => ~GIE' /\ UNCHANGED <<hw_ie, mirrors>>]_vars

\* an interrupt is pending while dcd_int_disable has taken the snapshot and
\* not yet zeroed the enables
C15_Witness ==
  /\ pc = "dis_clear" /\ PendingVectors # {}
  /\ Mirrors = TrackedIE /\ ~in_isr

(***************************************************************************)
(* Claims about the bytes of an IN transfer.                               *)
(***************************************************************************)
RECURSIVE SumSeq(_)
\* the number of bytes in a sequence of packet sizes
SumSeq(sizes) == IF sizes = <<>> THEN 0 ELSE Head(sizes) + SumSeq(Tail(sizes))

\* C16: the packets of an IN transfer of L bytes on endpoint 0 deliver the
\* buffer in order: the bytes of each packet are read from the offsets that
\* follow those of the packets before it, every byte copied comes from an
\* offset below L, and at completion the packets together are the bytes
\* 0 .. L-1 of the buffer.
C16_InOrder ==
  /\ [][isr_input_endpoint0 /\ Len(packets') = Len(packets) + 1 =>
          LET size == packets'[Len(packets')]
              start == SumSeq(packets)
          IN \A i \in 0 .. (size - 1) :
               /\ USBIEP0BUF'[i] = <<Ep0In.buffer, start + i>>
               /\ start + i < Ep0In.total_len]_vars
  /\ [](in_owner # "none" /\ xfer_done # <<>> =>
          SumSeq(packets) = Ep0In.total_len)

(***************************************************************************)
(* Claims about a transfer queued over one in progress.                    *)
(***************************************************************************)
\* an IN transfer on endpoint 0 is queued and not yet reported complete
Ep0InBusy == in_owner # "none" /\ xfer_done = <<>>

\* C17: dcd_edpt_xfer on endpoint 0 IN while an earlier IN transfer is not
\* complete is accepted and overwrites the record with the new buffer and
\* length and queued_len 0, emitting no event; every transfer-complete event
\* from then on carries the length of the request now in the record, so
\* none is emitted for the overwritten transfer.
C17_Overwrite ==
  /\ [][\A b \in Buffers, l \in OverLens :
          Ep0InBusy /\ dcd_edpt_xfer(tu_edpt_addr(0, TUSB_DIR_IN), b, l) =>
            /\ ret' = "true"
            /\ Ep0In' = [buffer |-> b, total_len |-> l, queued_len |-> 0,
                         max_size |-> Ep0In.max_size,
                         short_packet |-> FALSE, zlp_sent |-> FALSE]
            /\ xfer_done' = <<>> /\ isr_events' = isr_events]_vars
  /\ [][xfer_done' # xfer_done /\ xfer_done' # <<>> =>
          /\ isr_input_endpoint0
          /\ xfer_done' = <<Ep0In.total_len>>
          /\ Ep0In' = Ep0In]_vars

\* a zero-length transfer has just been queued while the 8-byte packet of
\* the transfer before it is still armed and not acknowledged
C17_Witness ==
  /\ ret = "true" /\ Ep0InBusy
  /\ Ep0In.total_len = 0 /\ Ep0In.queued_len = 0
  /\ 0 \in USBIEPIFG /\ ~HasNAK(USBIEPCNT_0)
  /\ USBIEPCNT_0 % 16 = EP0_MAX_SIZE
  /\ USBIEP0BUF[EP0_MAX_SIZE - 1] = <<1, EP0_MAX_SIZE - 1>>

(***************************************************************************)
(* Claims about the interrupt sources the driver enables.                  *)
(***************************************************************************)
\* dcd_init has run: the module is enabled
Initialized == "USB_EN" \in USBCNF

\* the vectors the switch of the ISR has a case for
HandledVectors ==
  {USBVECINT_RSTR, USBVECINT_SETUP_PACKET_RECEIVED,
   USBVECINT_INPUT_ENDPOINT0, USBVECINT_OUTPUT_ENDPOINT0}

\* C18: in every state reached after dcd_init by port calls and ISR
\* invocations, the only interrupt sources enabled are bus reset, SETUP
\* received, endpoint-0 IN and endpoint-0 OUT; so a vector read in the ISR
\* is one of these four and the halting default branch is not reached.
C18_OnlyFourSources ==
  Initialized =>
    /\ USBOEPIE \subseteq {0}
    /\ USBIEPIE \subseteq {0}
    /\ USBIE \subseteq {"RSTRIE", "SETUPIE"}
    /\ USBPWRCTL \cap PwrIE = {}
    /\ IntRequest => USBVECINT \in HandledVectors
    /\ ~halted

\* after dcd_init, with all four sources enabled, VBUS has risen and an
\* interrupt is requested
C18_Witness ==
  /\ Initialized /\ "VBONIFG" \in USBPWRCTL /\ IntRequest
  /\ USBOEPIE = {0} /\ USBIEPIE = {0}
  /\ USBIE = {"RSTRIE", "SETUPIE"}

(***************************************************************************)
(* Claims about the number of setup events.                                *)
(***************************************************************************)
\* C19: with a vector read reporting one pending enabled source and
\* clearing only that source's flag, every SETUP packet arrival causes
\* exactly one setup event, also when a bus-reset, endpoint-0 IN or
\* endpoint-0 OUT interrupt is pending too and is reported first: the SETUP
\* flag is raised only by an arrival, an ISR invocation emits a setup event
\* exactly when it finds the flag set, and an invocation that emits the
\* event leaves the flag clear, so that none emits it again.
C19_OneSetupEvent ==
  /\ [][("SETUPIFG" \notin USBIFG /\ "SETUPIFG" \in USBIFG') =>
          \E sp \in SetupVals : HwSetup(sp)]_vars
  /\ [][USB_UBM_ISR =>
          (EventsOf("setup")' # <<>>) = ("SETUPIFG" \in USBIFG)]_vars
  /\ [][USB_UBM_ISR /\ EventsOf("setup")' # <<>> =>
          "SETUPIFG" \notin USBIFG']_vars

(***************************************************************************)
(* Claims about the global interrupt enable.                               *)
(***************************************************************************)
\* C20: dcd_int_enable and dcd_int_disable both return with the global
\* interrupt enable bit set, whatever its value was at entry: the caller's
\* previous global-interrupt state is not restored.
C20_ReturnsEnabled ==
  [][(pc \in {"dis_bis", "en_bis"} /\ pc' = "main") => (GIE' = TRUE)]_vars

\* a call entered with global interrupts disabled has returned with them
\* enabled
C20_Witness ==
  /\ pc = "main" /\ int_log # <<>>
  /\ ~LastCall.gie /\ GIE

==========================================================================
